---- MODULE Spec2Model ----
(***************************************************************************)
(* A model of the graph containers of graph.h / graph_vector.h and of the  *)
(* traversals of graph_algorithms.h.                                       *)
(*                                                                         *)
(*   Spec        the descriptor based containers `graph' and               *)
(*               `graph_vector' driven through their public modifiers      *)
(*   SpecSet     the set based class of graph.h:19-80                      *)
(*   SpecSearch  breadth_first_search / depth_first_search run, one loop   *)
(*               iteration per step, on a graph drawn from a bounded set   *)
(*   SpecVector  the vector based class Graph of graph_vector.h            *)
(***************************************************************************)
EXTENDS Integers, Sequences, FiniteSets, TLC

\* ---------------------------------------------------------------- bounds
\* largest vertex descriptor a caller passes to the descriptor based API
MaxDesc == 3
\* largest vertex property value passed to insert_vertex
MaxProp == 1
\* largest int passed to the set based class
MaxInt == 2

\* most vertices and most directed edges of a graph handed to a traversal
MaxVertices == 3
MaxEdges == 3

\* most vertices of a vector based Graph and longest adjacency list in it
MaxNumVertices == 3
MaxDegree == 2

Descs == 0..MaxDesc
Props == 0..MaxProp
Ints == 0..MaxInt

VARIABLES
    graph,          \* the object of class graph (graph.h:109-341)
    graph_vector,   \* the object of class graph_vector (part_000:233-427)
    call,           \* the last call made on either object and what it returned
    vertices,       \* set based class: unordered_set<int> vertices
    edges,          \* set based class: unordered_set<pair<int,int>> edges
    g,              \* the graph a traversal is called on
    alg,            \* which traversal runs: "bfs" or "dfs"
    pc,             \* where the traversal stands
    p,              \* the ParentMap argument
    q,              \* std::queue<vertex_descriptor> q
    edges_unexplored,
    vertices_unexplored,
    vi,             \* position of the "for each CC" loop in g's vertex order
    front,          \* the vertex breadth_first_search took from q.front()
    aei,            \* position in the adjacency list of front
    stack,          \* the dfs_visit calls in progress: vertex u, position aei
    visits,         \* per vertex: times dequeued / entered by dfs_visit
    adjList         \* vector based class: vector<vector<int>> adjList

apiVars == <<graph, graph_vector, call>>
setVars == <<vertices, edges>>
searchVars == <<g, alg, pc, p, q, edges_unexplored, vertices_unexplored, vi, front,
                aei, stack, visits>>
vecVars == <<adjList>>
vars == <<graph, graph_vector, call, vertices, edges, g, alg, pc, p, q,
          edges_unexplored, vertices_unexplored, vi, front, aei, stack, visits,
          adjList>>

\* ------------------------------------------------ descriptor based classes
Classes == {"graph", "graph_vector"}

\* graph keeps unordered sets, graph_vector keeps vectors
EmptyContainer(c) == IF c = "graph" THEN {} ELSE <<>>

Elems(c, container) ==
    IF c = "graph" THEN container
    ELSE {container[i] : i \in DOMAIN container}

Size(c, container) ==
    IF c = "graph" THEN Cardinality(container) ELSE Len(container)

\* graph() : m_max_vd(0) {} and graph_vector() : m_max_vd(0) {}
Construct(c) ==
    [m_max_vd |-> 0, m_vertices |-> EmptyContainer(c), m_edges |-> EmptyContainer(c)]

Obj(c) == IF c = "graph" THEN graph ELSE graph_vector

NoCall ==
    [cls |-> "none", op |-> "none", a |-> 0, b |-> 0, ret |-> <<>>, err |-> "none",
     prev |-> <<"none", "none">>]

InitApi ==
    /\ graph = Construct("graph")
    /\ graph_vector = Construct("graph_vector")
    /\ call = NoCall

\* accessors
num_vertices(c, G) == Size(c, G.m_vertices)
num_edges(c, G) == Size(c, G.m_edges)

\* the live vertex descriptors and the live edge descriptors of an object
LiveVertices(c, G) == {v.m_descriptor : v \in Elems(c, G.m_vertices)}
LiveEdges(c, G) == {<<e.m_source, e.m_target>> : e \in Elems(c, G.m_edges)}
\* the edge descriptors held in the adjacency list of the vertex vd
OutEdges(c, G, vd) ==
    UNION {Elems(c, v.m_out_edges) : v \in {w \in Elems(c, G.m_vertices) : w.m_descriptor = vd}}
AllOutEdges(c, G) == UNION {Elems(c, v.m_out_edges) : v \in Elems(c, G.m_vertices)}

\* find_vertex / find_edge: an iterator, "end" when absent
find_vertex(c, G, vd) == IF vd \in LiveVertices(c, G) THEN <<"at", vd>> ELSE <<"end">>
find_edge(c, G, ed) == IF ed \in LiveEdges(c, G) THEN <<"at", ed>> ELSE <<"end">>

\* the modifiers: each gives the object after the call and the value returned.
\* The bodies under @todo store nothing and signal nothing.
insert_vertex(c, G, vp) == [obj |-> G, ret |-> <<G.m_max_vd>>, err |-> "none"]
insert_edge(c, G, sd, td) == [obj |-> G, ret |-> <<sd, td>>, err |-> "none"]
insert_edge_undirected(c, G, sd, td) == [obj |-> G, ret |-> <<>>, err |-> "none"]
erase_vertex(c, G, vd) == [obj |-> G, ret |-> <<>>, err |-> "none"]
erase_edge(c, G, ed) == [obj |-> G, ret |-> <<>>, err |-> "none"]

clear_resets_to_one(c, G) ==
    [obj |-> [m_max_vd |-> 1, m_vertices |-> EmptyContainer(c), m_edges |-> EmptyContainer(c)],
     ret |-> <<>>, err |-> "none"]

clear(c, G) ==
    [obj |-> [m_max_vd |-> 0, m_vertices |-> EmptyContainer(c), m_edges |-> EmptyContainer(c)],
     ret |-> <<>>, err |-> "none"]

\* one call on the object of class c
Apply(c, op, a, b, r) ==
    /\ IF c = "graph"
       THEN graph' = r.obj /\ UNCHANGED graph_vector
       ELSE graph_vector' = r.obj /\ UNCHANGED graph
    /\ call' = [cls |-> c, op |-> op, a |-> a, b |-> b, ret |-> r.ret, err |-> r.err,
                prev |-> <<call.cls, call.op>>]
    /\ UNCHANGED <<setVars, searchVars, vecVars>>

CallInsertVertex ==
    \E c \in Classes, vp \in Props :
        Apply(c, "insert_vertex", vp, 0, insert_vertex(c, Obj(c), vp))

CallInsertEdge ==
    \E c \in Classes, sd \in Descs, td \in Descs :
        Apply(c, "insert_edge", sd, td, insert_edge(c, Obj(c), sd, td))

CallInsertEdgeUndirected ==
    \E c \in Classes, sd \in Descs, td \in Descs :
        Apply(c, "insert_edge_undirected", sd, td, insert_edge_undirected(c, Obj(c), sd, td))

CallEraseVertex ==
    \E c \in Classes, vd \in Descs :
        Apply(c, "erase_vertex", vd, 0, erase_vertex(c, Obj(c), vd))

CallEraseEdge ==
    \E c \in Classes, sd \in Descs, td \in Descs :
        Apply(c, "erase_edge", sd, td, erase_edge(c, Obj(c), <<sd, td>>))

CallClear ==
    \E c \in Classes : Apply(c, "clear", 0, 0, clear(c, Obj(c)))

CallFindVertex ==
    \E c \in Classes, vd \in Descs :
        Apply(c, "find_vertex", vd, 0,
              [obj |-> Obj(c), ret |-> find_vertex(c, Obj(c), vd), err |-> "none"])

CallFindEdge ==
    \E c \in Classes, sd \in Descs, td \in Descs :
        Apply(c, "find_edge", sd, td,
              [obj |-> Obj(c), ret |-> find_edge(c, Obj(c), <<sd, td>>), err |-> "none"])

\* ------------------------------------------------------- set based class
InitSet ==
    /\ vertices = {}
    /\ edges = {}

insertVertex(V, v) == V \cup {v}

\* eraseVertex: the vertex set and the edge set after the call
eraseVertex_vertices(V, v) == V \ {v}
eraseVertex_edges_source_only(E, v) == {e \in E : ~(e[1] = v)}

eraseVertex_edges(E, v) == {e \in E : ~(e[1] = v \/ e[2] = v)}

insertEdge(E, v1, v2) == (E \cup {<<v1, v2>>}) \cup {<<v2, v1>>}

eraseEdge(E, v1, v2) == (E \ {<<v1, v2>>}) \ {<<v2, v1>>}

CallInsertVertexSet ==
    \E v \in Ints :
        /\ vertices' = insertVertex(vertices, v)
        /\ UNCHANGED <<edges, apiVars, searchVars, vecVars>>

CallEraseVertexSet ==
    \E v \in Ints :
        /\ vertices' = eraseVertex_vertices(vertices, v)
        /\ edges' = eraseVertex_edges(edges, v)
        /\ UNCHANGED <<apiVars, searchVars, vecVars>>

CallInsertEdgeSet ==
    \E v1 \in Ints, v2 \in Ints :
        /\ edges' = insertEdge(edges, v1, v2)
        /\ UNCHANGED <<vertices, apiVars, searchVars, vecVars>>

CallEraseEdgeSet ==
    \E v1 \in Ints, v2 \in Ints :
        /\ edges' = eraseEdge(edges, v1, v2)
        /\ UNCHANGED <<vertices, apiVars, searchVars, vecVars>>

NextSet ==
    \/ CallInsertVertexSet
    \/ CallEraseVertexSet
    \/ CallInsertEdgeSet
    \/ CallEraseEdgeSet

\* ------------------------------------------------------------ traversals
\* the value breadth_first_search and depth_first_search store for "no parent"
Sentinel == -1

Perms(S) ==
    {f \in [1..Cardinality(S) -> S] : \A i, j \in DOMAIN f : i # j => f[i] # f[j]}

Range(f) == {f[i] : i \in DOMAIN f}

\* A graph as the traversals see it: the vertices in the order
\* vertices_cbegin()..vertices_cend() yields them, each with its adjacency list
\* in the order begin()..end() yields it, and the edge collection.  Every
\* edge joins two vertices of the graph and lies in the adjacency list of its
\* source.  eord is the order edges_cbegin()..edges_cend() yields the edges.
MakeGraph(vord, eord) ==
    [m_vertices |->
        [i \in DOMAIN vord |->
            [m_descriptor |-> vord[i],
             m_out_edges |-> SelectSeq(eord, LAMBDA e : e[1] = vord[i])]],
     m_edges |-> Range(eord)]

\* The orders in which a container may yield the n vertices 0..n-1.  The
\* traversals use descriptors only as keys, and StartSearch draws every edge
\* set over the descriptors and every order of every adjacency list, so a
\* graph iterated in any other order is a renaming of one drawn here.
VertexOrders(n) == {[i \in 1..n |-> i - 1], [i \in 1..n |-> n - i]}

\* the ParentMap as the caller hands it over: empty, or left from another run
StaleMaps == {<<>>, [x \in {0, MaxVertices + 1} |-> 0]}

StartSearch ==
    /\ \E n \in 0..MaxVertices :
         \E E \in {F \in SUBSET ((0..(n - 1)) \X (0..(n - 1))) : Cardinality(F) <= MaxEdges} :
           \E vord \in VertexOrders(n), eord \in Perms(E) :
              g = MakeGraph(vord, eord)
    /\ alg \in {"bfs", "dfs"}
    /\ p \in StaleMaps
    /\ pc = "start"
    /\ q = <<>>
    /\ edges_unexplored = {}
    /\ vertices_unexplored = {}
    /\ vi = 1
    /\ front = Sentinel
    /\ aei = 1
    /\ stack = <<>>
    /\ visits = <<>>

\* no traversal is running
IdleSearch ==
    /\ g = MakeGraph(<<>>, <<>>)
    /\ alg = "none"
    /\ p = <<>>
    /\ pc = "idle"
    /\ q = <<>>
    /\ edges_unexplored = {}
    /\ vertices_unexplored = {}
    /\ vi = 1
    /\ front = Sentinel
    /\ aei = 1
    /\ stack = <<>>
    /\ visits = <<>>

\* the descriptors of g's vertices
Descriptors(G) == {G.m_vertices[i].m_descriptor : i \in DOMAIN G.m_vertices}

\* *g.find_vertex(d)
VertexOf(G, d) ==
    G.m_vertices[CHOOSE i \in DOMAIN G.m_vertices : G.m_vertices[i].m_descriptor = d]

\* p.clear(); then p[vd] = -1 for every vertex
InitialParents_keeps_old(P, G) ==
    [d \in Descriptors(G) \cup DOMAIN P |-> IF d \in Descriptors(G) THEN Sentinel ELSE P[d]]

InitialParents(P, G) == [d \in Descriptors(G) |-> Sentinel]

\* vertices_unexplored.erase(d)
MarkExplored_forgets(unexplored, d) == unexplored

MarkExplored(unexplored, d) == unexplored \ {d}

\* p[t] = u
SetParent_swapped(P, t, u) == [P EXCEPT ![u] = t]

SetParent(P, t, u) == [P EXCEPT ![t] = u]

\* the setup and initialisation both traversals start with
Initialize ==
    /\ pc = "start"
    /\ p' = InitialParents(p, g)
    /\ vertices_unexplored' = Descriptors(g)
    /\ edges_unexplored' = g.m_edges
    /\ visits' = [d \in Descriptors(g) |-> 0]
    /\ vi' = 1
    /\ pc' = "scan"
    /\ UNCHANGED <<g, alg, q, front, aei, stack, apiVars, setVars, vecVars>>

\* one iteration of the "for each CC" loop, up to the point where the
\* component's search starts
Scan ==
    /\ pc = "scan"
    /\ IF vi > Len(g.m_vertices)
       THEN /\ pc' = "done"
            /\ UNCHANGED <<q, vertices_unexplored, vi, stack, visits>>
       ELSE LET d == g.m_vertices[vi].m_descriptor
            IN  IF d \notin vertices_unexplored
                THEN /\ vi' = vi + 1
                     /\ UNCHANGED <<pc, q, vertices_unexplored, stack, visits>>
                ELSE IF alg = "bfs"
                THEN /\ q' = Append(q, d)
                     /\ vertices_unexplored' = MarkExplored(vertices_unexplored, d)
                     /\ pc' = "queue"
                     /\ UNCHANGED <<vi, stack, visits>>
                ELSE \* dfs_visit(g, d, ...) is entered
                     /\ vertices_unexplored' = MarkExplored(vertices_unexplored, d)
                     /\ stack' = <<[u |-> d, aei |-> 1]>>
                     /\ visits' = [visits EXCEPT ![d] = @ + 1]
                     /\ pc' = "visit"
                     /\ UNCHANGED <<vi, q>>
    /\ UNCHANGED <<g, alg, p, edges_unexplored, front, aei, apiVars, setVars, vecVars>>

\* while (!q.empty()): the front vertex is taken, or the loop ends
Dequeue ==
    /\ pc = "queue"
    /\ IF q = <<>>
       THEN /\ vi' = vi + 1
            /\ pc' = "scan"
            /\ UNCHANGED <<q, front, aei, visits>>
       ELSE /\ front' = Head(q)
            /\ q' = Tail(q)
            /\ aei' = 1
            /\ visits' = [visits EXCEPT ![Head(q)] = @ + 1]
            /\ pc' = "adj"
            /\ UNCHANGED vi
    /\ UNCHANGED <<g, alg, p, edges_unexplored, vertices_unexplored, stack,
                   apiVars, setVars, vecVars>>

\* the tests breadth_first_search makes before it takes an edge as discovery
\* edge: the edge is still unexplored and so is its target
IsDiscovery_ignores_target(e, t, eu, vu) == e \in eu

IsDiscovery(e, t, eu, vu) == e \in eu /\ t \in vu

\* one iteration of the loop over the adjacency list of the dequeued vertex
BfsEdge ==
    /\ pc = "adj"
    /\ LET out == VertexOf(g, front).m_out_edges
       IN  IF aei > Len(out)
           THEN /\ pc' = "queue"
                /\ UNCHANGED <<p, q, edges_unexplored, vertices_unexplored, aei>>
           ELSE LET e == out[aei]
                    t == e[2]
                IN  /\ aei' = aei + 1
                    /\ pc' = "adj"
                    /\ IF IsDiscovery(e, t, edges_unexplored, vertices_unexplored)
                       THEN \* discovery edge
                            /\ edges_unexplored' = edges_unexplored \ {e}
                            /\ p' = SetParent(p, t, VertexOf(g, front).m_descriptor)
                            /\ q' = Append(q, t)
                            /\ vertices_unexplored' = MarkExplored(vertices_unexplored, t)
                       ELSE \* cross edge, or an edge explored before
                            UNCHANGED <<p, q, edges_unexplored, vertices_unexplored>>
    /\ UNCHANGED <<g, alg, vi, front, stack, visits, apiVars, setVars, vecVars>>

\* one iteration of the loop of the innermost dfs_visit call: it returns at
\* the end of the adjacency list, skips an explored edge, or explores one and
\* calls dfs_visit on an unexplored target
DfsEdge ==
    /\ pc = "visit"
    /\ LET top == stack[Len(stack)]
           u == top.u
           out == VertexOf(g, u).m_out_edges
           rest == SubSeq(stack, 1, Len(stack) - 1)
       IN  IF top.aei > Len(out)
           THEN /\ stack' = rest
                /\ IF rest = <<>>
                   THEN vi' = vi + 1 /\ pc' = "scan"
                   ELSE UNCHANGED <<vi, pc>>
                /\ UNCHANGED <<p, edges_unexplored, vertices_unexplored, visits>>
           ELSE LET e == out[top.aei]
                    t == e[2]
                    here == [u |-> u, aei |-> top.aei + 1]
                IN  /\ UNCHANGED <<vi, pc>>
                    /\ IF e \notin edges_unexplored
                       THEN /\ stack' = Append(rest, here)
                            /\ UNCHANGED <<p, edges_unexplored, vertices_unexplored, visits>>
                       ELSE /\ edges_unexplored' = edges_unexplored \ {e}
                            /\ IF t \in vertices_unexplored
                               THEN /\ p' = SetParent(p, t, u)
                                    /\ vertices_unexplored' =
                                           MarkExplored(vertices_unexplored, t)
                                    /\ stack' = Append(Append(rest, here), [u |-> t, aei |-> 1])
                                    /\ visits' = [visits EXCEPT ![t] = @ + 1]
                               ELSE /\ stack' = Append(rest, here)
                                    /\ UNCHANGED <<p, vertices_unexplored, visits>>
    /\ UNCHANGED <<g, alg, q, front, aei, apiVars, setVars, vecVars>>

NextSearch ==
    \/ Initialize
    \/ Scan
    \/ Dequeue
    \/ BfsEdge
    \/ DfsEdge

\* ---------------------------------------------------- vector based class
\* Graph(int numVertices): numVertices empty adjacency lists.  adjList[i] of
\* the code is adjList[i + 1] here.
StartVector ==
    \E numVertices \in 0..MaxNumVertices :
        adjList = [i \in 1..numVertices |-> <<>>]

\* no vector based Graph is in use
IdleVector == adjList = <<>>

\* v.erase(v.begin() + i): the vector without the element at index i
EraseAt(v, i) == SubSeq(v, 1, i) \o SubSeq(v, i + 2, Len(v))

\* the inner loop of removeVertex on one adjacency list, from index j on:
\* the first element equal to v is erased and the loop left, an element
\* greater than v met before that is decremented
RECURSIVE removeVertex_list(_, _, _)
removeVertex_list(list, v, j) ==
    IF ~(j < Len(list)) THEN list
    ELSE IF list[j + 1] = v THEN EraseAt(list, j)
    ELSE IF list[j + 1] > v
         THEN removeVertex_list([list EXCEPT ![j + 1] = @ - 1], v, j + 1)
    ELSE removeVertex_list(list, v, j + 1)

removeVertex(A, v) ==
    LET B == EraseAt(A, v)
    IN  [i \in DOMAIN B |-> removeVertex_list(B[i], v, 0)]

addVertex(A) == Append(A, <<>>)

addEdge(A, u, v) ==
    LET B == [A EXCEPT ![u + 1] = Append(@, v)]
    IN  [B EXCEPT ![v + 1] = Append(@, u)]

\* one loop of removeEdge: the first element of the list equal to x is erased
RECURSIVE removeEdge_list(_, _, _)
removeEdge_list(list, x, i) ==
    IF ~(i < Len(list)) THEN list
    ELSE IF list[i + 1] = x THEN EraseAt(list, i)
    ELSE removeEdge_list(list, x, i + 1)

removeEdge(A, u, v) ==
    LET B == [A EXCEPT ![u + 1] = removeEdge_list(@, v, 0)]
    IN  [B EXCEPT ![v + 1] = removeEdge_list(@, u, 0)]

\* the indices a caller may pass: those of the vertices there are
InRange(A) == 0..(Len(A) - 1)

CallAddVertex ==
    /\ Len(adjList) < MaxNumVertices
    /\ adjList' = addVertex(adjList)
    /\ UNCHANGED <<apiVars, setVars, searchVars>>

CallRemoveVertex ==
    \E v \in InRange(adjList) :
        /\ adjList' = removeVertex(adjList, v)
        /\ UNCHANGED <<apiVars, setVars, searchVars>>

CallAddEdge ==
    \E u \in InRange(adjList), v \in InRange(adjList) :
        /\ Len(adjList[u + 1]) + (IF u = v THEN 2 ELSE 1) <= MaxDegree
        /\ Len(adjList[v + 1]) < MaxDegree
        /\ adjList' = addEdge(adjList, u, v)
        /\ UNCHANGED <<apiVars, setVars, searchVars>>

CallRemoveEdge ==
    \E u \in InRange(adjList), v \in InRange(adjList) :
        /\ adjList' = removeEdge(adjList, u, v)
        /\ UNCHANGED <<apiVars, setVars, searchVars>>

NextVector ==
    \/ CallAddVertex
    \/ CallRemoveVertex
    \/ CallAddEdge
    \/ CallRemoveEdge

\* ------------------------------------------------------- specifications
Init == InitApi /\ InitSet /\ IdleSearch /\ IdleVector

Next ==
    \/ CallInsertVertex
    \/ CallInsertEdge
    \/ CallInsertEdgeUndirected
    \/ CallEraseVertex
    \/ CallEraseEdge
    \/ CallClear
    \/ CallFindVertex
    \/ CallFindEdge

Spec == Init /\ [][Next]_vars

SpecSet == Init /\ [][NextSet]_vars

InitSearch == InitApi /\ InitSet /\ StartSearch /\ IdleVector

InitVector == InitApi /\ InitSet /\ IdleSearch /\ StartVector

SpecVector == InitVector /\ [][NextVector]_vars

SpecSearch == InitSearch /\ [][NextSearch]_vars

\* a call runs on the caller's thread to completion: a step that can be
\* taken is taken
SpecSearchFair == SpecSearch /\ WF_vars(NextSearch)

\* ================================================================ claims
ObjNext(c) == IF c = "graph" THEN graph' ELSE graph_vector'

Called(c, op) == call'.cls = c /\ call'.op = op

\* C1: insert_vertex increases num_vertices() by exactly 1 and returns a
\* descriptor that no live vertex has, that the new vertex then has, and that
\* the next insert_vertex does not return again.
C1_InsertVertexAddsFreshVertex ==
    [][\A c \in Classes :
        Called(c, "insert_vertex") =>
            /\ num_vertices(c, ObjNext(c)) = num_vertices(c, Obj(c)) + 1
            /\ call'.ret[1] \notin LiveVertices(c, Obj(c))
            /\ call'.ret[1] \in LiveVertices(c, ObjNext(c))
            /\ (call.cls = c /\ call.op = "insert_vertex") => call'.ret # call.ret]_vars

\* C2: insert_edge reports InvalidVertex and changes no edge collection
\* when an endpoint is not live; when both are live the edge is in the edge
\* collection and in the adjacency list of its source afterwards.
C2_InsertEdgeChecksEndpoints ==
    [][\A c \in Classes :
        Called(c, "insert_edge") =>
            LET sd == call'.a
                td == call'.b
            IN  IF sd \in LiveVertices(c, Obj(c)) /\ td \in LiveVertices(c, Obj(c))
                THEN /\ call'.err = "none"
                     /\ <<sd, td>> \in LiveEdges(c, ObjNext(c))
                     /\ <<sd, td>> \in OutEdges(c, ObjNext(c), sd)
                     /\ find_edge(c, ObjNext(c), <<sd, td>>) # <<"end">>
                ELSE /\ call'.err = "InvalidVertex"
                     /\ ObjNext(c).m_edges = Obj(c).m_edges
                     /\ ObjNext(c).m_vertices = Obj(c).m_vertices]_vars

\* C3: insert_edge_undirected either adds both (u,v) and (v,u), or, when u
\* or v is not live, fails with InvalidVertex and adds neither.
C3_InsertEdgeUndirectedAtomic ==
    [][\A c \in Classes :
        Called(c, "insert_edge_undirected") =>
            LET u == call'.a
                v == call'.b
            IN  IF u \in LiveVertices(c, Obj(c)) /\ v \in LiveVertices(c, Obj(c))
                THEN {<<u, v>>, <<v, u>>} \subseteq LiveEdges(c, ObjNext(c))
                ELSE /\ call'.err = "InvalidVertex"
                     /\ LiveEdges(c, ObjNext(c)) = LiveEdges(c, Obj(c))]_vars

\* C4: erase_vertex(vd) fails with VertexNotFound when vd is not live, and
\* otherwise removes vd and every edge with vd as source or target from the
\* edge collection and from every adjacency list.
C4_EraseVertexRemovesIncidentEdges ==
    [][\A c \in Classes :
        Called(c, "erase_vertex") =>
            LET vd == call'.a
            IN  IF vd \in LiveVertices(c, Obj(c))
                THEN /\ vd \notin LiveVertices(c, ObjNext(c))
                     /\ \A e \in LiveEdges(c, ObjNext(c)) \cup AllOutEdges(c, ObjNext(c)) :
                            e[1] # vd /\ e[2] # vd
                ELSE call'.err = "VertexNotFound"]_vars

\* C5: erase_edge(ed) fails with EdgeNotFound when no live edge has the
\* descriptor ed, and otherwise removes it from the edge collection and the
\* source's adjacency list, so that num_edges() drops and find_edge(ed) is
\* not-found.
C5_EraseEdgeReportsMissing ==
    [][\A c \in Classes :
        Called(c, "erase_edge") =>
            LET ed == <<call'.a, call'.b>>
            IN  IF ed \in LiveEdges(c, Obj(c))
                THEN /\ ed \notin LiveEdges(c, ObjNext(c))
                     /\ ed \notin AllOutEdges(c, ObjNext(c))
                     /\ num_edges(c, ObjNext(c)) < num_edges(c, Obj(c))
                     /\ find_edge(c, ObjNext(c), ed) = <<"end">>
                ELSE call'.err = "EdgeNotFound"]_vars

\* C6: clear() leaves the object empty (no vertices, no edges) with the
\* descriptor counter at its initial value, an insert_vertex called right
\* after it returns descriptor 0, and a second clear() in a row leaves the
\* object exactly as the first one did.
C6_ClearEmptiesAndIsIdempotent ==
    [][\A c \in Classes :
        /\ Called(c, "clear") =>
            /\ num_vertices(c, ObjNext(c)) = 0
            /\ num_edges(c, ObjNext(c)) = 0
            /\ ObjNext(c).m_max_vd = 0
        /\ (Called(c, "clear") /\ call.cls = c /\ call.op = "clear") =>
            ObjNext(c) = Obj(c)
        /\ (Called(c, "insert_vertex") /\ call.cls = c /\ call.op = "clear") =>
            call'.ret = <<0>>]_vars

\* two clear() calls in a row on the same object have been made
C6_Witness ==
    /\ call.op = "clear"
    /\ call.prev = <<call.cls, "clear">>
    /\ num_vertices(call.cls, Obj(call.cls)) = 0

\* ------------------------------------------------- claims on the traversals
Verts == Descriptors(g)

\* the vertices reachable from v along directed edges of E
RECURSIVE Closure(_, _, _)
Closure(S, E, k) ==
    IF k = 0 THEN S
    ELSE Closure(S \cup {e[2] : e \in {f \in E : f[1] \in S}}, E, k - 1)

Reach(v, E) == Closure({v}, E, Cardinality(Verts))

\* connected components as the glossary defines them: maximal sets of
\* vertices mutually reachable via edges
Components ==
    {{v \in Verts : v \in Reach(u, g.m_edges) /\ u \in Reach(v, g.m_edges)} : u \in Verts}

\* the components when the direction of the edges is ignored
WeakComponents ==
    LET both == g.m_edges \cup {<<e[2], e[1]>> : e \in g.m_edges}
    IN  {Reach(u, both) : u \in Verts}

\* every edge has its mirror: the graph is undirected
Symmetric == \A e \in g.m_edges : <<e[2], e[1]>> \in g.m_edges

Roots == {v \in DOMAIN p : p[v] = Sentinel}

\* C7 as stated: the parent map has one entry per vertex and exactly K
\* sentinel entries, K the number of connected components of the graph,
\* whether components are taken as sets of mutually reachable vertices or with
\* the direction of the edges ignored.
C7_SentinelPerComponentAnyGraph ==
    pc = "done" =>
        /\ DOMAIN p = Verts
        /\ \/ Cardinality(Roots) = Cardinality(Components)
           \/ Cardinality(Roots) = Cardinality(WeakComponents)

\* C7 amended: when the traversal is done the parent map has exactly one
\* entry per vertex of the graph (none on the empty graph, whatever the map
\* held before), and on a graph whose edge set is symmetric exactly K of them
\* hold the sentinel, K the number of connected components.
C7_SentinelPerComponent ==
    pc = "done" =>
        /\ DOMAIN p = Verts
        /\ Verts = {} => p = <<>>
        /\ Symmetric => Cardinality(Roots) = Cardinality(Components)

\* a traversal has finished on an undirected graph of two components, one
\* of them with an edge
C7_Witness ==
    /\ pc = "done"
    /\ Symmetric
    /\ Cardinality(Components) = 2
    /\ \E e \in g.m_edges : e[1] # e[2]

\* following parent links from v reaches the sentinel without meeting a
\* vertex twice
RECURSIVE ReachesRoot(_, _)
ReachesRoot(v, seen) ==
    IF v \in seen \/ v \notin DOMAIN p THEN FALSE
    ELSE IF p[v] = Sentinel THEN TRUE
    ELSE ReachesRoot(p[v], seen \cup {v})

\* C8: on a graph that is one connected component of N vertices the parent
\* map has exactly one sentinel entry and N-1 other entries, each entry
\* parent[t] = u an edge (u, t) of the graph, and the parent links lead from
\* every vertex to the root without repeating a vertex.
C8_SpanningTree ==
    (pc = "done" /\ Cardinality(Components) = 1) =>
        /\ DOMAIN p = Verts
        /\ Cardinality(Roots) = 1
        /\ Cardinality(Verts \ Roots) = Cardinality(Verts) - 1
        /\ \A t \in Verts \ Roots : <<p[t], t>> \in g.m_edges
        /\ \A v \in Verts : ReachesRoot(v, {})

\* a traversal has finished on a single component of three or more vertices
C8_Witness ==
    /\ pc = "done"
    /\ Cardinality(Components) = 1
    /\ Cardinality(Verts) >= 3
    /\ Cardinality(Verts \ Roots) >= 2

\* C9: the traversal terminates, and when it has, no vertex is left in the
\* unexplored-vertex set and every vertex was dequeued (breadth first) or
\* entered by dfs_visit (depth first) exactly once.
C9_TerminatesEachVertexOnce ==
    /\ <>(pc = "done")
    /\ [](pc = "done" =>
            /\ vertices_unexplored = {}
            /\ \A v \in Verts : visits[v] = 1)

\* a traversal has finished on a graph with an edge that is not a tree edge
\* between two distinct vertices, so a vertex was met again
C9_Witness ==
    /\ pc = "done"
    /\ vertices_unexplored = {}
    /\ \E e \in g.m_edges : e[1] # e[2] /\ p[e[2]] # e[1]

\* C10: in the set based class every edge (a, b) of the edge set has both a
\* and b in the vertex set.
C10_NoEdgeWithoutVertices ==
    \A e \in edges : e[1] \in vertices /\ e[2] \in vertices

\* the edges that lie in some vertex's adjacency list
AdjacencyEdges ==
    UNION {Range(g.m_vertices[i].m_out_edges) : i \in DOMAIN g.m_vertices}

\* C11: an outgoing edge of the dequeued vertex that breadth_first_search
\* examines while it is still in the unexplored-edge set is out of that set
\* after the examination, whether its target was unexplored (discovery edge)
\* or explored (cross edge); and when the search is finished no edge of any
\* adjacency list is left in the unexplored-edge set.
C11_BfsMarksExaminedEdges ==
    [][/\ (alg = "bfs" /\ pc = "adj"
           /\ aei <= Len(VertexOf(g, front).m_out_edges)
           /\ VertexOf(g, front).m_out_edges[aei] \in edges_unexplored)
          => VertexOf(g, front).m_out_edges[aei] \notin edges_unexplored'
       /\ (alg = "bfs" /\ pc' = "done")
          => edges_unexplored' \cap AdjacencyEdges = {}]_vars

\* C12: in the set based class the edge set is symmetric: (a, b) is in it
\* exactly when (b, a) is.
C12_EdgeSetSymmetric ==
    \A e \in edges : <<e[2], e[1]>> \in edges

\* both halves of an edge between two distinct vertices are in the edge set
\* while both halves of another pair are not, one endpoint of which is gone
\* from the vertex set
C12_Witness ==
    /\ \E e \in edges : e[1] # e[2]
    /\ \E a \in Ints, b \in Ints :
          /\ a # b
          /\ a \notin vertices
          /\ <<a, b>> \notin edges
          /\ <<b, a>> \notin edges
    /\ vertices # {}

\* the number of parent links from t up to the sentinel entry (the model's
\* graphs have at most MaxVertices vertices, so a longer chain is a cycle)
RECURSIVE Depth(_, _)
Depth(t, k) ==
    IF k = 0 \/ t \notin DOMAIN p THEN -1
    ELSE IF p[t] = Sentinel THEN 0
    ELSE LET d == Depth(p[t], k - 1)
         IN  IF d < 0 THEN -1 ELSE d + 1

\* the sentinel entry the parent links lead to from t
RECURSIVE RootOf(_, _)
RootOf(t, k) ==
    IF k = 0 \/ t \notin DOMAIN p \/ p[t] = Sentinel THEN t
    ELSE RootOf(p[t], k - 1)

\* the least number of edges of E on a directed path from r to t, -1 if
\* there is none: S holds the vertices at most d edges away from r
RECURSIVE Distance(_, _, _, _)
Distance(S, t, E, d) ==
    IF t \in S THEN d
    ELSE LET T == S \cup {e[2] : e \in {f \in E : f[1] \in S}}
         IN  IF T = S THEN -1 ELSE Distance(T, t, E, d + 1)

\* C13: when breadth_first_search is done, for every vertex t the number of
\* parent links from t up to its sentinel root equals the least number of
\* edges on a directed path from that root to t.
C13_BfsShortestPathForest ==
    (alg = "bfs" /\ pc = "done") =>
        \A t \in Verts :
            Depth(t, Cardinality(Verts) + 1)
                = Distance({RootOf(t, Cardinality(Verts) + 1)}, t, g.m_edges, 0)

\* breadth_first_search has finished on a graph where some vertex lies one
\* link below its root although a longer path leads to it as well, through
\* another vertex one link below that root
C13_Witness ==
    /\ alg = "bfs"
    /\ pc = "done"
    /\ \E t \in Verts :
          /\ Depth(t, Cardinality(Verts) + 1) = 1
          /\ \E e \in g.m_edges :
                /\ e[2] = t
                /\ e[1] # p[t]
                /\ e[1] # t
                /\ Depth(e[1], Cardinality(Verts) + 1) = 1
                /\ p[e[1]] = p[t]

\* how often the index x occurs in an adjacency list
Occurrences(list, x) == Cardinality({k \in DOMAIN list : list[k] = x})

\* C14: in the vector based Graph every neighbour index stored in an
\* adjacency list is less than the number of vertices, and j occurs in
\* adjList[i] as many times as i occurs in adjList[j].
C14_AdjacencyWellFormed ==
    /\ \A i \in DOMAIN adjList : \A k \in DOMAIN adjList[i] :
          adjList[i][k] < Len(adjList)
    /\ \A i \in InRange(adjList), j \in InRange(adjList) :
          Occurrences(adjList[i + 1], j) = Occurrences(adjList[j + 1], i)

====
